---- MODULE Spec2Model ----
(***************************************************************************)
(* abc-mini: the diagnostics channel (fault handlers), the growable array  *)
(* Vec and the BLIF import entry point AbcMiniReadBlif.                     *)
(***************************************************************************)
EXTENDS Integers, Sequences, FiniteSets, TLC

VARIABLES
  assertions,   \* build flag ABC_MINI_ENABLE_ASSERTIONS: assert() is compiled in
  handlers,     \* FaultHandlerStack::handlers(), in registration order
  emitted,      \* handler invocations so far: <<[h |-> handler, msg |-> text]>>
  lastOp,       \* the diagnostics operation of the last step
  installed,    \* the handlers installed since the last reset, in order
  pc,           \* position of the AbcMiniReadBlif call
  Text,         \* argument Text: "null" or "text"
  OutNetwork,   \* argument OutNetwork: TRUE when it points to a caller variable
  handle,       \* *OutNetwork, the caller's network handle
  result,       \* the value returned: "none", "OK" or "ERROR"
  manager,      \* the BlifManager: [live, freed, error, scanOK]
  design,       \* local `design`: "null", "created" (Abc_DesCreate) or "parsed"
  des,          \* the Design object: [modules, tops, freed, useAfterFree, checkFailed]
  net,          \* the networks of the parsed design, by id
  network,      \* local `network`
  i,            \* loop index
  ran,          \* the stages that have run after the parse
  ub,           \* TRUE once a statement with undefined behaviour was executed
  vGlobalLtlArray, \* the Vec the global vGlobalLtlArray points to
  pendingLtl,   \* the deferred properties the parse left pending
  clientVec,    \* a Vec that a client of the array operations works on
  pushed,       \* the entries that Vec is meant to hold, in order
  pushOnly,     \* TRUE while that Vec has seen only pushes since vec_alloc
  vecOp         \* the last operation on that Vec, its arguments and outcome

diagVars == <<handlers, emitted, lastOp, installed>>
callVars == <<pc, Text, OutNetwork, handle, result, manager, design, des, net,
              network, i, ran, ub, vGlobalLtlArray, pendingLtl>>
vecVars == <<clientVec, pushed, pushOnly, vecOp>>
vars == <<assertions, handlers, emitted, lastOp, installed, pc, Text, OutNetwork, handle,
          result, manager, design, des, net, network, i, ran, ub,
          vGlobalLtlArray, pendingLtl, clientVec, pushed, pushOnly, vecOp>>

----------------------------------------------------------------------------
\* Bounds of the model.

\* the largest number of modules a parsed design has
MaxMods == 3
\* the largest number of subcircuit instances of one module
MaxSubckt == 1
\* the longest handler list the diagnostics specification builds
MaxHandlers == 3
\* the largest number of handler invocations the diagnostics specification logs
MaxEmitted == 4
\* the largest number of pushes on one Vec of the array specification
MaxPush == 4

----------------------------------------------------------------------------
\* Pointers.  A pointer is null, the address of a network object, or the
\* address of a slot of the storage of a Vec.

NULL == [t |-> "null", v |-> "", i |-> 0]
NetP(n) == [t |-> "net", v |-> "", i |-> n]
SlotP(v, k) == [t |-> "slot", v |-> v, i |-> k]
\* a non-null value left in the caller's variable before the call
Stale == [t |-> "stale", v |-> "", i |-> 0]
\* the content of a slot that was never written
Uninit == [t |-> "uninit", v |-> "", i |-> 0]

\* a < b on 32-bit unsigned operands given as two's complement ints
ULess(a, b) == IF (a < 0) = (b < 0) THEN a < b ELSE b < 0

----------------------------------------------------------------------------
\* Vec: capacity, size and the storage; slot k of the storage is array[k + 1].

UninitSlots(n) == [k \in 1..n |-> Uninit]

vec_alloc(id, capacity) ==
  LET cap == IF capacity > 0 /\ capacity < 8 THEN 8 ELSE capacity
  IN  [id |-> id, capacity |-> cap, size |-> 0, array |-> UninitSlots(cap)]

vec_grow(vec, min_capacity) ==
  IF vec.capacity >= min_capacity THEN vec
  ELSE [vec EXCEPT !.capacity = min_capacity,
                   !.array = vec.array \o UninitSlots(min_capacity - vec.capacity)]

PushGrowsTo16(vec, entry) ==
  LET g == IF vec.size = vec.capacity THEN vec_grow(vec, 16) ELSE vec
      next_i == g.size
  IN  [g EXCEPT !.array = IF next_i >= 0 /\ next_i < g.capacity
                          THEN [g.array EXCEPT ![next_i + 1] = entry]
                          ELSE g.array,
                !.size = g.size + 1]

vec_push(vec, entry) ==
  LET g == IF vec.size = vec.capacity
           THEN IF vec.capacity < 16 THEN vec_grow(vec, 16)
                ELSE vec_grow(vec, vec.capacity * 2)
           ELSE vec
      next_i == g.size
  IN  [g EXCEPT !.array = IF next_i >= 0 /\ next_i < g.capacity
                          THEN [g.array EXCEPT ![next_i + 1] = entry]
                          ELSE g.array,
                !.size = g.size + 1]

\* the content of slot index (what vec.array[index] reads)
SlotContent(vec, index) ==
  IF index >= 0 /\ index < vec.capacity THEN vec.array[index + 1] ELSE Uninit

\* assert(index < vec.size), index unsigned
vec_entry_at_assert(vec, index) == ULess(index, vec.size)

\* the value returned: the address of the slot, vec.array + index; the storage
\* of a Vec of capacity 0 is the null pointer
vec_entry_at(vec, index) ==
  IF vec.capacity = 0 /\ index = 0 THEN NULL ELSE SlotP(vec.id, index)

\* the live entries, slot 0 .. size - 1
Entries(vec) == [k \in 1..(IF vec.size > 0 THEN vec.size ELSE 0) |-> vec.array[k]]

\* the slots 0 .. size - 1 that hold entry
Matches(vec, entry) == {k \in 0..(vec.size - 1) : vec.array[k + 1] = entry}

Min(S) == CHOOSE x \in S : \A y \in S : x <= y

Max(S) == CHOOSE x \in S : \A y \in S : y <= x

\* slots from .. size - 1 moved one slot down, then --size
ShiftDown(vec, from) ==
  [vec EXCEPT !.array = [k \in 1..vec.capacity |->
                           IF k >= from /\ k < vec.size THEN vec.array[k + 1]
                           ELSE vec.array[k]],
              !.size = vec.size - 1]

\* The outcomes of vec_remove.  With a matching slot the backward scan stops at
\* the one of highest index.  With none the unsigned index wraps below 0 and
\* the scan reads outside the storage: the process traps, or a word outside the
\* storage compares equal, at index UINT_MAX (then ++i wraps to 0 and every slot
\* moves down) or at another index >= size (then nothing moves); --size follows.
vec_remove(vec, entry) ==
  IF Matches(vec, entry) # {}
  THEN {[vec |-> ShiftDown(vec, Max(Matches(vec, entry)) + 1),
         ub |-> FALSE, crash |-> FALSE]}
  ELSE {[vec |-> vec, ub |-> TRUE, crash |-> TRUE],
        [vec |-> [vec EXCEPT !.size = vec.size - 1], ub |-> TRUE, crash |-> FALSE],
        [vec |-> ShiftDown(vec, 0), ub |-> TRUE, crash |-> FALSE]}

\* A client of the array: allocate, push, grow, remove and entry_at in any
\* order.  The entries are two distinct pointers, so that a Vec can hold an
\* entry twice.
VecEntries == {NetP(1), NetP(2)}
\* the capacities vec_alloc is called with
AllocCapacities == {0, 1, 7, 8, 16}
\* the capacities vec_grow is called with
GrowCapacities == {0, 2, 17}
\* the capacities of the Vecs the client fills up to their capacity
FillCapacities == {16, 17}

VecOp(op, idx, entry, ret, res, present) ==
  [op |-> op, idx |-> idx, entry |-> entry, ret |-> ret, res |-> res,
   present |-> present]

VecAlloc(capacity) ==
  /\ vecOp.res = "ok"
  /\ UNCHANGED <<assertions, diagVars, callVars>>
  /\ vecOp.op # "alloc"
  /\ clientVec' = vec_alloc("vec", capacity)
  /\ pushed' = <<>>
  /\ pushOnly' = TRUE
  /\ vecOp' = VecOp("alloc", capacity, NULL, NULL, "ok", FALSE)

\* a store to vec.array[-1], when size was left negative, is outside the storage
VecPush(entry) ==
  /\ vecOp.res = "ok"
  /\ UNCHANGED <<assertions, diagVars, callVars>>
  /\ Len(pushed) < MaxPush \/ clientVec.size = clientVec.capacity
  /\ clientVec' = vec_push(clientVec, entry)
  /\ pushed' = Append(pushed, entry)
  /\ UNCHANGED pushOnly
  /\ vecOp' = VecOp("push", 0, entry, NULL, "ok", FALSE)

\* vec_push(vec, entry) repeated on an empty Vec until it is full
RECURSIVE FillAll(_, _)
FillAll(vec, entry) ==
  IF vec.size >= vec.capacity THEN vec ELSE FillAll(vec_push(vec, entry), entry)

VecFill(entry) ==
  /\ vecOp.res = "ok"
  /\ UNCHANGED <<assertions, diagVars, callVars>>
  /\ clientVec.capacity \in FillCapacities
  /\ clientVec.size = 0
  /\ clientVec' = FillAll(clientVec, entry)
  /\ pushed' = pushed \o [k \in 1..(clientVec.capacity - clientVec.size) |-> entry]
  /\ UNCHANGED pushOnly
  /\ vecOp' = VecOp("fill", 0, entry, NULL, "ok", FALSE)

VecGrow(min_capacity) ==
  /\ vecOp.res = "ok"
  /\ UNCHANGED <<assertions, diagVars, callVars>>
  /\ clientVec' = vec_grow(clientVec, min_capacity)
  /\ UNCHANGED <<pushed, pushOnly>>
  /\ vecOp' = VecOp("grow", min_capacity, NULL, NULL, "ok", FALSE)

\* the entries of seq without the last one equal to x
RECURSIVE WithoutLast(_, _)
WithoutLast(seq, x) ==
  IF seq = <<>> THEN <<>>
  ELSE IF seq[Len(seq)] = x THEN SubSeq(seq, 1, Len(seq) - 1)
  ELSE Append(WithoutLast(SubSeq(seq, 1, Len(seq) - 1), x), seq[Len(seq)])

VecRemove(entry) ==
  /\ vecOp.res = "ok"
  /\ UNCHANGED <<assertions, diagVars, callVars>>
  /\ clientVec.size >= 0 /\ clientVec.size <= MaxPush
  /\ \E r \in vec_remove(clientVec, entry) :
       /\ clientVec' = r.vec
       /\ vecOp' = VecOp("remove", 0, entry, NULL,
                         IF r.crash THEN "crashed" ELSE "ok",
                         Matches(clientVec, entry) # {})
  /\ pushed' = WithoutLast(pushed, entry)
  /\ pushOnly' = FALSE

\* the index is unsigned: -1 stands for UINT_MAX
VecEntryAt(index) ==
  /\ vecOp.res = "ok"
  /\ UNCHANGED <<assertions, diagVars, callVars>>
  /\ UNCHANGED <<clientVec, pushed, pushOnly>>
  /\ vecOp' = IF assertions /\ ~vec_entry_at_assert(clientVec, index)
              THEN VecOp("entry_at", index, NULL, NULL, "aborted", FALSE)
              ELSE VecOp("entry_at", index, NULL, vec_entry_at(clientVec, index), "ok", FALSE)

----------------------------------------------------------------------------
\* Diagnostics channel.

default_fault_handler == "default_fault_handler"
\* the handler of smoke_test.cpp and a second custom handler
fault_log == "fault_log"
CustomHandlers == {fault_log, "handler2"}

\* A format string is a sequence of tokens: "{}" is a replacement field, "{"
\* and "}" are unmatched braces, every other token is literal text.
RECURSIVE format_message(_, _)
format_message(format, args) ==
  IF format = <<>> THEN [ok |-> TRUE, out |-> <<>>]
  ELSE IF Head(format) \in {"{", "}"} THEN [ok |-> FALSE, out |-> <<>>]
  ELSE IF Head(format) = "{}"
       THEN IF args = <<>> THEN [ok |-> FALSE, out |-> <<>>]
            ELSE LET r == format_message(Tail(format), Tail(args))
                 IN  [ok |-> r.ok, out |-> <<Head(args)>> \o r.out]
  ELSE LET r == format_message(Tail(format), args)
       IN  [ok |-> r.ok, out |-> <<Head(format)>> \o r.out]

EmitToFirstOnly(hs, format, args) ==
  [thrown |-> FALSE,
   calls |-> <<[h |-> hs[1], msg |-> format_message(format, args).out]>>]

\* emit_fault: for every handler, in order, format the message and call the
\* handler with it; std::vformat throws std::format_error on a bad format.
emit_fault(hs, format, args) ==
  LET m == format_message(format, args)
  IN  IF hs # <<>> /\ ~m.ok THEN [thrown |-> TRUE, calls |-> <<>>]
      ELSE [thrown |-> FALSE,
            calls |-> [k \in 1..Len(hs) |-> [h |-> hs[k], msg |-> m.out]]]

InstallAlwaysAppends(hs, h) == Append(hs, h)

InstallReplacesFirst(hs, h) == [hs EXCEPT ![1] = h]

ResetKeepsFirst(hs) == <<hs[1]>>

InstallFaultHandler(hs, h) ==
  IF Len(hs) = 1 /\ hs[1] = default_fault_handler
  THEN [hs EXCEPT ![1] = h]
  ELSE Append(hs, h)

ResetFaultHandlers(hs) == <<default_fault_handler>>

AbcMiniInstallFaultHandler(h) ==
  /\ pc = "idle"
  /\ Len(handlers) < MaxHandlers
  /\ handlers' = InstallFaultHandler(handlers, h)
  /\ installed' = Append(installed, h)
  /\ lastOp' = [op |-> "install", h |-> h]
  /\ UNCHANGED <<assertions, emitted, callVars, vecVars>>

AbcMiniResetFaultHandlers ==
  /\ pc = "idle"
  /\ handlers' = ResetFaultHandlers(handlers)
  /\ installed' = <<>>
  /\ lastOp' = [op |-> "reset", h |-> ""]
  /\ UNCHANGED <<assertions, emitted, callVars, vecVars>>

\* the format strings and arguments the diagnostics specification emits
DiagFormats == {<<"x">>, <<"check failed for ", "{}">>, <<"unexpected ", "{">>}
DiagArgs == <<"M1">>

EmitFault(format, args) ==
  /\ pc = "idle"
  /\ Len(emitted) + Len(handlers) <= MaxEmitted
  /\ LET e == emit_fault(handlers, format, args)
     IN  /\ emitted' = emitted \o e.calls
         /\ lastOp' = [op |-> IF e.thrown THEN "throw" ELSE "emit", h |-> ""]
  /\ UNCHANGED <<assertions, handlers, installed, callVars, vecVars>>

----------------------------------------------------------------------------
\* Networks and the Design.

ModNames == <<"M1", "M2", "M3", "M4", "M5", "M6">>
IntStr(n) == IF n < 0 THEN "-1" ELSE <<"0", "1", "2", "3", "4", "5", "6">>[n + 1]
filename == "input.blif"
\* what a read through a pointer that is no live network may yield
Garbage == "<garbage>"

\* p points to a network object that has not been freed
Valid(p) == p.t = "net" /\ p.i \in DOMAIN net /\ net[p.i].alive

\* p->name, p->exdc_network, p->_unused_spec: the field when p is a live
\* network, else any value (the pointer is mistyped or dangling); Garbage
\* stands for whatever text such a read yields
ReadName(p) == IF Valid(p) THEN net[p.i].name ELSE Garbage
\* p->name == std::string_view{"EXDC"}
NameIsExdc(p) == IF Valid(p) THEN {net[p.i].name = "EXDC"} ELSE BOOLEAN
ReadExdc(p) == IF Valid(p) THEN {net[p.i].exdc} ELSE {NULL, Stale}
ReadSpec(p) == IF Valid(p) THEN {net[p.i].spec} ELSE {"", Garbage}

\* p->field = value: lands in the network when p is a live network, else
\* somewhere outside every network
WriteNet(nt, p, field, value) ==
  IF p.t = "net" /\ p.i \in DOMAIN nt /\ nt[p.i].alive
  THEN [nt EXCEPT ![p.i][field] = value]
  ELSE nt

\* Abc_NtkCheckRead(p): the structural check passes or fails; the objects of
\* a network that decide it are not part of the state
Abc_NtkCheckRead(p) == BOOLEAN

\* the networks reachable from S over subcircuit instances, in up to k steps
RECURSIVE ReachFrom(_, _)
ReachFrom(S, k) ==
  IF k = 0 THEN S
  ELSE ReachFrom(S \cup UNION {net[n].subckt : n \in S}, k - 1)

Reach(S) == ReachFrom(S, Len(net))

\* no cycle of subcircuit instances is reachable from network r
AcyclicFrom(r) == \A n \in Reach({r}) : n \notin Reach(net[n].subckt)

\* Abc_NtkIsAcyclicHierarchy(p)
Abc_NtkIsAcyclicHierarchy(p) == IF Valid(p) THEN {AcyclicFrom(p.i)} ELSE BOOLEAN

RECURSIVE PushAll(_, _)
PushAll(vec, entries) ==
  IF entries = <<>> THEN vec
  ELSE PushAll(vec_push(vec, Head(entries)), Tail(entries))

\* the members of a module list that are network pointers
Members(vec) == {Entries(vec)[k].i : k \in {j \in 1..Len(Entries(vec)) : Entries(vec)[j].t = "net"}}

\* Abc_DesFindTopLevelModels: the modules, in module-list order, that no other
\* module of the design instantiates
IsTopLevel(d, p) ==
  p.t = "net" /\ \A m \in Members(d.modules) \ {p.i} : p.i \notin net[m].subckt

Abc_DesFindTopLevelModels(d) ==
  PushAll(vec_alloc("tops", 0),
          SelectSeq(Entries(d.modules), LAMBDA p : IsTopLevel(d, p)))

\* Abc_DesFree(design, network_to_keep): the Design and every member network
\* but the one to keep are freed
Abc_DesFree_Nets(nt, d, keep) ==
  [n \in DOMAIN nt |->
     IF n \in Members(d.modules) /\ NetP(n) # keep
     THEN [nt[n] EXCEPT !.alive = FALSE] ELSE nt[n]]

Abc_DesFree_Des(d) == [d EXCEPT !.freed = d.freed + 1]

\* Abc_NtkCheckRead returned 0 for a network
CheckFailed(d) == [d EXCEPT !.checkFailed = TRUE]

\* reading design->modules or design->top_level_modules of a freed Design
Touch(d) == [d EXCEPT !.useAfterFree = d.useAfterFree \/ d.freed > 0]

\* the texts AbcMini__Io_MvReadInterfaces / AbcMini__Io_MvParse leave in
\* manager.error on failure; the second quotes a brace of the input
ErrorTexts == {<<"Line 1: bad token">>, <<"Line 1: unexpected ", "{">>}

SubcktSets(k) == {S \in SUBSET (1..k) : Cardinality(S) <= MaxSubckt}

\* the networks AbcMini__Io_MvParse lowers k modules into
ParsedNets(k, ex, sub) ==
  [n \in 1..k |->
     [name |-> IF ex[n] THEN "EXDC" ELSE ModNames[n],
      design |-> "D", exdc |-> NULL, spec |-> "", alive |-> TRUE,
      subckt |-> sub[n], ltl |-> <<>>]]

\* the deferred properties AbcMini__Io_MvParse may leave in vGlobalLtlArray
PendingLists == {<<>>, <<"G p", "F q">>}

ParsedDesign(k) ==
  [modules |-> PushAll(vec_alloc("modules", 0), [n \in 1..k |-> NetP(n)]),
   tops |-> vec_alloc("tops", 0), freed |-> 0, useAfterFree |-> FALSE, checkFailed |-> FALSE]

----------------------------------------------------------------------------
\* AbcMiniReadBlif, statement by statement.

Cur ==
  [pc |-> pc, handle |-> handle, result |-> result, manager |-> manager,
   design |-> design, des |-> des, net |-> net, network |-> network, i |-> i,
   ran |-> ran, ub |-> ub, emitted |-> emitted,
   vGlobalLtlArray |-> vGlobalLtlArray, pendingLtl |-> pendingLtl]

Apply(s) ==
  /\ pc' = s.pc
  /\ handle' = s.handle
  /\ result' = s.result
  /\ manager' = s.manager
  /\ design' = s.design
  /\ des' = s.des
  /\ net' = s.net
  /\ network' = s.network
  /\ i' = s.i
  /\ ran' = s.ran
  /\ ub' = s.ub
  /\ emitted' = s.emitted
  /\ vGlobalLtlArray' = s.vGlobalLtlArray
  /\ pendingLtl' = s.pendingLtl
  /\ UNCHANGED <<assertions, handlers, lastOp, installed, vecVars>>

\* assert() failed: abort()
Abort(s) == [s EXCEPT !.pc = "aborted"]
\* the process traps on an invalid access
Crash(s) == [s EXCEPT !.pc = "crashed", !.ub = TRUE]
ReturnKeepsManager(s, r) == [s EXCEPT !.pc = "returned", !.result = r]

\* return r: the BlifManager goes out of scope, its deleter frees the manager
Return(s, r) ==
  [s EXCEPT !.pc = "returned", !.result = r,
            !.manager = [s.manager EXCEPT !.live = FALSE, !.freed = @ + 1]]

\* emit_fault(format, args...) between state `before` and state `after`; an
\* exception of std::vformat leaves the function
WithEmit(before, after, format, args) ==
  LET e == emit_fault(handlers, format, args)
  IN  IF e.thrown THEN [before EXCEPT !.pc = "thrown"]
      ELSE [after EXCEPT !.emitted = after.emitted \o e.calls]

\* part_001:297-313 (stub = FALSE) and BlifReader.cpp:99-189 (stub = TRUE):
\* the two assertions, *OutNetwork = nullptr, the manager, Abc_DesCreate and
\* the access to manager.inner->design, which AbcMini__Io_MvAlloc left set
\* (md) or null.  A store or load through a null pointer traps.
Prologue(stub) ==
  /\ pc = "idle"
  /\ \E t \in {"null", "text"}, o \in BOOLEAN, h0 \in {NULL, Stale}, md \in BOOLEAN :
       /\ o \/ h0 = NULL
       /\ Text' = t
       /\ OutNetwork' = o
       /\ LET called == [Cur EXCEPT !.handle = h0]
              entered == [Cur EXCEPT !.handle = NULL,
                                     !.manager = [manager EXCEPT !.live = TRUE],
                                     !.design = "created"]
          IN  IF assertions /\ (t = "null" \/ o) THEN Apply(Abort(called))
              ELSE IF ~o THEN Apply(Crash(called))
              ELSE IF ~md THEN Apply(Crash([entered EXCEPT !.manager = manager]))
              ELSE IF stub THEN Apply(Return(entered, "ERROR"))
              ELSE Apply([entered EXCEPT !.pc = "interfaces"])

AbcMiniReadBlif_Enter ==
  /\ pc = "idle"
  /\ Prologue(FALSE)

\* BlifReader.cpp:99-190: the import whose pipeline is not yet written
AbcMiniReadBlif_Stub ==
  /\ pc = "idle"
  /\ Prologue(TRUE)

\* part_001:314-316: the interface scan and, when it succeeds, the full parse
MvRead ==
  /\ pc = "interfaces"
  /\ UNCHANGED <<Text, OutNetwork>>
  /\ \/ \E e \in ErrorTexts :
          Apply([Cur EXCEPT !.pc = "report",
                            !.manager = [manager EXCEPT !.error = e, !.scanOK = FALSE]])
     \/ \E e \in ErrorTexts :
          Apply([Cur EXCEPT !.pc = "report", !.design = "null",
                            !.manager = [manager EXCEPT !.error = e]])
     \/ \E k \in 1..MaxMods :
          \E ex \in [1..k -> BOOLEAN], sub \in [1..k -> SubcktSets(k)],
             pending \in PendingLists :
            Apply([Cur EXCEPT !.pc = "report", !.design = "parsed",
                              !.net = ParsedNets(k, ex, sub),
                              !.des = ParsedDesign(k),
                              !.vGlobalLtlArray = PushAll(vec_alloc("ltl", 0), pending),
                              !.pendingLtl = pending])

\* part_001:317-322
ReportError ==
  /\ pc = "report"
  /\ UNCHANGED <<Text, OutNetwork>>
  /\ LET after == IF design = "null" THEN Return(Cur, "ERROR")
                  ELSE [Cur EXCEPT !.pc = "check", !.i = 0]
     IN  IF manager.error # <<>>
         THEN Apply(WithEmit(Cur, after, manager.error, <<>>))
         ELSE Apply(after)

\* part_001:323-329, one evaluation of the loop condition and one iteration
CheckStep ==
  /\ pc = "check"
  /\ UNCHANGED <<Text, OutNetwork>>
  /\ LET t == [Cur EXCEPT !.des = Touch(des), !.ub = ub \/ des.freed > 0]
         p == vec_entry_at(des.modules, i)
     IN  IF ULess(i, des.modules.size)
         THEN \/ ~Valid(p) /\ Apply(Crash(t))
              \/ \E ok \in Abc_NtkCheckRead(p) :
                   LET c == [t EXCEPT !.ran = ran \cup {"check"},
                                      !.ub = t.ub \/ ~Valid(p),
                                      !.i = i + 1]
                   IN  IF ok THEN Apply(c)
                       ELSE Apply(WithEmit([c EXCEPT !.des = CheckFailed(t.des)],
                              [c EXCEPT !.des = Abc_DesFree_Des(CheckFailed(t.des)),
                                        !.net = Abc_DesFree_Nets(net, des, NULL),
                                        !.ub = c.ub \/ des.freed > 0],
                              <<"network check has failed for ", "{}">>,
                              <<ReadName(p)>>))
         ELSE Apply([t EXCEPT !.pc = "exdc"])

\* part_001:330-331
ExdcBegin ==
  /\ pc = "exdc"
  /\ UNCHANGED <<Text, OutNetwork>>
  /\ LET t == [Cur EXCEPT !.des = Touch(des), !.ub = ub \/ des.freed > 0]
     IN  IF des.modules.size > 1
         THEN Apply([t EXCEPT !.pc = "exdcloop", !.i = 1,
                              !.network = vec_entry_at(des.modules, 0)])
         ELSE Apply([t EXCEPT !.pc = "toplevel"])

\* part_001:332-343, one evaluation of the loop condition and one iteration
ExdcStep ==
  /\ pc = "exdcloop"
  /\ UNCHANGED <<Text, OutNetwork>>
  /\ LET t == [Cur EXCEPT !.des = Touch(des), !.ub = ub \/ des.freed > 0]
         other_network == vec_entry_at(des.modules, i)
     IN  IF ULess(i, des.modules.size)
         THEN \/ ~Valid(other_network) /\ Apply(Crash(t))
              \/ \E isExdc \in NameIsExdc(other_network) :
                   LET c == [t EXCEPT !.ran = ran \cup {"exdc"},
                                      !.ub = t.ub \/ ~Valid(other_network)]
                   IN  IF isExdc
                       THEN \E x \in ReadExdc(network), r \in vec_remove(des.modules, other_network) :
                              LET a == [c EXCEPT !.ub = c.ub \/ ~Valid(network) \/ r.ub,
                                                 !.net = WriteNet(net, network, "exdc", other_network)]
                              IN  IF assertions /\ x # NULL THEN Apply(Abort(c))
                                  ELSE IF r.crash THEN Apply(Crash(a))
                                  ELSE Apply([a EXCEPT !.des = [t.des EXCEPT !.modules = r.vec],
                                                       !.net = WriteNet(a.net, other_network, "design", "null")])
                       ELSE Apply([c EXCEPT !.network = other_network, !.i = i + 1])
         ELSE Apply([t EXCEPT !.pc = "toplevel"])

\* part_001:345-353
TopLevel ==
  /\ pc = "toplevel"
  /\ UNCHANGED <<Text, OutNetwork>>
  /\ LET tops == Abc_DesFindTopLevelModels(des)
         n_root_modules == tops.size
         root == vec_entry_at(tops, 0)
         t == [Cur EXCEPT !.des = [Touch(des) EXCEPT !.tops = tops],
                          !.ub = ub \/ des.freed > 0,
                          !.ran = ran \cup {"toplevel"},
                          !.network = root]
         linked == [t EXCEPT !.pc = "link", !.ub = t.ub \/ ~Valid(root),
                             !.net = WriteNet(net, root, "design", "D")]
     IN  IF assertions /\ ~vec_entry_at_assert(tops, 0) THEN Apply(Abort(t))
         ELSE \/ ~Valid(root) /\ Apply(Crash(t))
              \/ /\ root # NULL
                 /\ IF n_root_modules > 1
                    THEN Apply(WithEmit(t, linked,
                           <<"warning: the design has ", "{}",
                             " root-level modules -- the first one (", "{}",
                             ") will be used">>,
                           <<IntStr(tops.size), ReadName(root)>>))
                    ELSE Apply(linked)

\* part_001:354-364
Link ==
  /\ pc = "link"
  /\ UNCHANGED <<Text, OutNetwork>>
  /\ LET t == [Cur EXCEPT !.des = Touch(des),
                          !.ub = ub \/ des.freed > 0 \/ ~Valid(network)]
     IN  IF assertions /\ ~(des.modules.size > 0) THEN Apply(Abort(t))
         ELSE IF des.modules.size = 1
         THEN \/ ~Valid(network) /\ Apply(Crash(t))
              \/ /\ network # NULL
                 /\ Apply([t EXCEPT
                      !.pc = "finish",
                      !.des = Abc_DesFree_Des(t.des),
                      !.net = WriteNet(WriteNet(Abc_DesFree_Nets(net, des, network),
                                                network, "design", "null"),
                                       network, "spec", filename)])
         ELSE \/ ~Valid(network) /\ Apply(Crash(t))
              \/ \E acyclic \in Abc_NtkIsAcyclicHierarchy(network) :
                   LET c == [t EXCEPT !.ran = ran \cup {"acyclic"}]
                   IN  /\ network # NULL
                       /\ IF acyclic THEN Apply([c EXCEPT !.pc = "finish"])
                          ELSE Apply(WithEmit(c, Return(c, "ERROR"),
                                 <<"network (", "{}", ") hierarchy is not acyclic">>,
                                 <<ReadName(network)>>))

\* the storage of a Vec after free(vec->array); free(vec)
FreedVec(vec) == [vec EXCEPT !.capacity = 0, !.size = 0, !.array = <<>>]

\* part_001:368-374: vGlobalLtlArray is pointed to a new Vec, the entries of
\* that Vec are pushed to the network's property list, its storage is freed
DrainLtl(nt, p) ==
  LET fresh == vec_alloc("ltl", 100)
      drained == [k \in 1..fresh.size |-> vec_entry_at(fresh, k - 1)]
  IN  [net |-> IF drained = <<>> THEN nt
               ELSE IF p.t = "net" /\ p.i \in DOMAIN nt /\ nt[p.i].alive
               THEN WriteNet(nt, p, "ltl", nt[p.i].ltl \o drained)
               ELSE nt,
       list |-> FreedVec(fresh)]

\* part_001:365-376
Finish ==
  /\ pc = "finish"
  /\ UNCHANGED <<Text, OutNetwork>>
  /\ \E sp \in ReadSpec(network) :
       LET t == [Cur EXCEPT !.ub = ub \/ ~Valid(network),
                            !.net = IF sp = "" THEN WriteNet(net, network, "spec", filename)
                                    ELSE net]
           d == DrainLtl(t.net, network)
           u == [t EXCEPT !.net = d.net, !.vGlobalLtlArray = d.list]
       IN  \/ ~Valid(network) /\ Apply(Crash(t))
           \/ network # NULL /\ Apply(Return([u EXCEPT !.handle = network], "OK"))

\* smoke_test.cpp:12: main installs fault_log before it calls the import
SmokeTestInstall ==
  /\ handlers = <<default_fault_handler>>
  /\ AbcMiniInstallFaultHandler(fault_log)

----------------------------------------------------------------------------
InitCall ==
  /\ pc = "idle"
  /\ Text = "null"
  /\ OutNetwork = FALSE
  /\ handle = NULL
  /\ result = "none"
  /\ manager = [live |-> FALSE, freed |-> 0, error |-> <<>>, scanOK |-> TRUE]
  /\ design = "null"
  /\ des = [modules |-> vec_alloc("modules", 0), tops |-> vec_alloc("tops", 0),
            freed |-> 0, useAfterFree |-> FALSE, checkFailed |-> FALSE]
  /\ net = <<>>
  /\ network = NULL
  /\ i = 0
  /\ ran = {}
  /\ ub = FALSE
  /\ vGlobalLtlArray = vec_alloc("ltl", 0)
  /\ pendingLtl = <<>>

InitVec ==
  /\ clientVec = vec_alloc("vec", 0)
  /\ pushed = <<>>
  /\ pushOnly = TRUE
  /\ vecOp = VecOp("alloc", 0, NULL, NULL, "ok", FALSE)

Init ==
  /\ assertions \in BOOLEAN
  /\ handlers = <<default_fault_handler>>
  /\ emitted = <<>>
  /\ lastOp = [op |-> "none", h |-> ""]
  /\ installed = <<>>
  /\ InitCall
  /\ InitVec

\* The array alone: one Vec and the operations on it in any order.
NextVec ==
  \/ \E c \in AllocCapacities : VecAlloc(c)
  \/ \E e \in VecEntries : VecPush(e)
  \/ \E e \in VecEntries : VecFill(e)
  \/ \E c \in GrowCapacities : VecGrow(c)
  \/ \E e \in VecEntries : VecRemove(e)
  \/ \E k \in -1..(MaxPush + 1) : VecEntryAt(k)

SpecVec == Init /\ [][NextVec]_vars

\* The diagnostics channel alone: install, reset and emit in any order.
NextDiag ==
  \/ \E h \in CustomHandlers : AbcMiniInstallFaultHandler(h)
  \/ AbcMiniResetFaultHandlers
  \/ \E f \in DiagFormats : EmitFault(f, DiagArgs)

SpecDiag == Init /\ [][NextDiag]_vars

\* One call of the import entry point, after the smoke test's install or not.
Next ==
  \/ SmokeTestInstall
  \/ AbcMiniReadBlif_Enter
  \/ AbcMiniReadBlif_Stub
  \/ MvRead
  \/ ReportError
  \/ CheckStep
  \/ ExdcBegin
  \/ ExdcStep
  \/ TopLevel
  \/ Link
  \/ Finish

Spec == Init /\ [][Next]_vars

----------------------------------------------------------------------------
\* What the claims speak of.

Returned == pc = "returned"
\* the design came out of AbcMini__Io_MvParse
Parsed == design = "parsed"
\* the module list AbcMini__Io_MvParse produced
ParsedModules == [n \in 1..Len(net) |-> NetP(n)]
\* the interface scan failed, or the full parse yielded no design
ParseFailed == ~manager.scanOK \/ (design = "null" /\ manager.error # <<>>)
\* the positions of the stages that follow the parse
LaterStages == {"check", "exdc", "exdcloop", "toplevel", "link", "finish"}
\* the top-level candidates, once top-level resolution has run
Candidates == Entries(des.tops)
\* some handler was called with a message that holds the text
Named(text) ==
  \E k \in 1..Len(emitted) : \E j \in 1..Len(emitted[k].msg) : emitted[k].msg[j] = text
\* the indices >= 2 of the parsed module list whose network is named "EXDC"
ExdcSiblings == {n \in 2..Len(net) : net[n].name = "EXDC"}
RECURSIVE Without(_, _)
Without(seq, x) ==
  IF seq = <<>> THEN <<>>
  ELSE IF Head(seq) = x THEN Tail(seq)
  ELSE <<Head(seq)>> \o Without(Tail(seq), x)

\* C1: every call of AbcMiniReadBlif that returns yields OK or ERROR, and the
\* caller's handle is non-null exactly when the result is OK: null on every
\* ERROR path, the chosen root network (the first top-level candidate) on OK.
C1_ResultAndHandle ==
  (Returned /\ OutNetwork) =>
    /\ result \in {"OK", "ERROR"}
    /\ (handle # NULL) <=> (result = "OK")
    /\ result = "OK" => /\ Candidates # <<>>
                        /\ handle = Candidates[1]

\* C2: a call with non-null text and a valid out-parameter whose handle is
\* initially null passes both assertions (it is not aborted), and, assertions
\* being compiled in, a call with null text is aborted by one.
C2_PreconditionsPass ==
  /\ ~(pc = "aborted" /\ Text = "text" /\ OutNetwork /\ handle = NULL)
  /\ (assertions /\ pc # "idle" /\ Text = "null") => pc = "aborted"

\* C3: once the interface scan has failed or the full parse has yielded no
\* design, none of the later stages runs, and the call returns ERROR with the
\* handle null after the buffered error message went to the handlers.
C3_ParseFailureIsTerminal ==
  ParseFailed =>
    /\ pc \notin LaterStages
    /\ ran = {}
    /\ Returned => /\ result = "ERROR"
                   /\ handle = NULL
                   /\ emitted # <<>>
                   /\ emitted[1].msg = manager.error

\* C4: once Abc_NtkCheckRead has failed for a network, a fault naming that
\* network was emitted, the Design was freed exactly once and is not accessed
\* again, no later network or stage is processed, and the call returns ERROR
\* with the handle null.
C4_CheckFailureAborts ==
  des.checkFailed =>
    /\ pc \notin LaterStages
    /\ ran \subseteq {"check"}
    /\ ~des.useAfterFree
    /\ Returned => /\ result = "ERROR"
                   /\ handle = NULL
                   /\ des.freed = 1
                   /\ \E n \in 1..Len(net) : Named(net[n].name)

\* C5: when a cycle of subcircuit instances is reachable from the chosen root
\* (also a module that instantiates itself, also when it is the only module),
\* the call returns ERROR, a fault naming the root was emitted and the handle
\* is null.
C5_CycleIsFatal ==
  (Returned /\ Parsed /\ ~des.checkFailed /\ Candidates # <<>>
     /\ Candidates[1].t = "net" /\ ~AcyclicFrom(Candidates[1].i)) =>
    /\ result = "ERROR"
    /\ handle = NULL
    /\ Named(net[Candidates[1].i].name)

\* C6: a design that parses and validates to exactly one module returns OK
\* with that module as root: the handle is the module, its owning_design is
\* null, the Design was freed once with the root kept alive, and the root's
\* spec_path is the source filename.
C6_SingletonDesign ==
  (Returned /\ Parsed /\ ~des.checkFailed /\ Len(net) = 1) =>
    /\ result = "OK"
    /\ handle = NetP(1)
    /\ net[1].design = "null"
    /\ net[1].alive
    /\ des.freed = 1
    /\ net[1].spec = filename

\* C7: for the module list [M, EXDC, N], after EXDC extraction the module list
\* is [M, N], M.exdc_network is the EXDC network and the owning_design of the
\* EXDC network is null.
C7_ExdcSibling ==
  (pc = "toplevel" /\ Parsed /\ ~des.checkFailed /\ Len(net) = 3
     /\ net[1].name # "EXDC" /\ net[2].name = "EXDC" /\ net[3].name # "EXDC") =>
    /\ Entries(des.modules) = <<NetP(1), NetP(3)>>
    /\ net[1].exdc = NetP(2)
    /\ net[2].design = "null"
    /\ net[1].design = "D" /\ net[3].design = "D"

\* C8: with two or more networks named "EXDC" at index 1 or later, only the
\* first is detached and attached as a companion; every later one stays in
\* design.modules, no exdc_network is set by it, and no assertion of the
\* extraction is violated.
C8_OneDetachment ==
  /\ pc = "aborted" => "exdc" \notin ran
  /\ (pc = "toplevel" /\ Parsed /\ ~des.checkFailed /\ Cardinality(ExdcSiblings) >= 2) =>
       LET first == CHOOSE n \in ExdcSiblings : \A m \in ExdcSiblings : n <= m
       IN  /\ Entries(des.modules) = Without(ParsedModules, NetP(first))
           /\ \A n \in 1..Len(net) : net[n].exdc \in {NULL, NetP(first)}
           /\ \A n \in ExdcSiblings \ {first} : net[n].design = "D"

\* C9: when top-level resolution finds more than one candidate the import is
\* not failed: a warning was emitted, the root is the first candidate, the
\* other candidates stay alive and in the Design, and the call returns OK
\* with the first candidate when the hierarchy check passes.
C9_FirstCandidateIsRoot ==
  (pc \in {"link", "finish", "returned"} /\ Parsed /\ ~des.checkFailed
     /\ Len(Candidates) > 1) =>
    /\ emitted # <<>>
    /\ network = Candidates[1]
    /\ \A k \in 1..Len(Candidates) :
         /\ Candidates[k] \in {Entries(des.modules)[j] : j \in 1..Len(Entries(des.modules))}
         /\ net[Candidates[k].i].alive
    /\ (Returned /\ AcyclicFrom(Candidates[1].i)) => result = "OK" /\ handle = Candidates[1]

----------------------------------------------------------------------------
\* C10: install(handler) replaces slot 0 when the handler list is exactly
\* [default], so that the list stays of length 1 and the default handler is no
\* longer in it, and in every other state appends the handler at the end,
\* leaving the existing handlers and their order unchanged.
C10_InstallReplacesOrAppends ==
  [][\A h \in CustomHandlers :
       lastOp' = [op |-> "install", h |-> h] =>
         IF handlers = <<default_fault_handler>>
         THEN /\ handlers' = <<h>>
              /\ \A k \in 1..Len(handlers') : handlers'[k] # default_fault_handler
         ELSE /\ Len(handlers') = Len(handlers) + 1
              /\ SubSeq(handlers', 1, Len(handlers)) = handlers
              /\ handlers'[Len(handlers')] = h]_vars

\* the first install has replaced the default handler and a second one was
\* appended after it
C10_Witness ==
  /\ lastOp.op = "install"
  /\ Len(handlers) = 2
  /\ handlers[1] = fault_log
  /\ handlers[2] = lastOp.h

----------------------------------------------------------------------------
C12_ResetIsIdempotent ==
  [][/\ lastOp'.op = "reset" =>
          /\ handlers' = <<default_fault_handler>>
          /\ ResetFaultHandlers(handlers') = handlers'
          /\ emitted' = emitted
     /\ (lastOp.op = "reset" /\ lastOp'.op = "emit") =>
          /\ Len(emitted') = Len(emitted) + 1
          /\ emitted'[Len(emitted')].h = default_fault_handler]_vars

\* a custom handler was called, then reset, then only the default handler
C12_Witness ==
  /\ lastOp.op = "emit"
  /\ handlers = <<default_fault_handler>>
  /\ Len(emitted) = 3
  /\ emitted[1].h = fault_log
  /\ emitted[2].h = "handler2"
  /\ emitted[3].h = default_fault_handler

\* C13: no emission throws: the call of emit_fault with the manager's error
\* text returns to the pipeline after every registered handler was called
\* with that text.
C13_EmissionNeverThrows ==
  /\ pc # "thrown"
  /\ lastOp.op # "throw"
  /\ (Returned /\ manager.error # <<>>) =>
       /\ Len(emitted) >= Len(handlers)
       /\ \A k \in 1..Len(handlers) :
            emitted[k] = [h |-> handlers[k], msg |-> manager.error]

----------------------------------------------------------------------------
\* C14: after N pushes on a freshly allocated Vec, of any initial capacity,
\* size is N and entry_at(i) returns for every i < N the entry pushed i-th,
\* also after the storage was reallocated by growth.
C14_PushThenEntryAt ==
  (pushOnly /\ vecOp.res = "ok") =>
    /\ clientVec.size = Len(pushed)
    /\ (vecOp.op = "entry_at" /\ vecOp.idx >= 0 /\ vecOp.idx < Len(pushed)) =>
         vecOp.ret = pushed[vecOp.idx + 1]

\* C15: remove(entry) on a Vec with at least one slot equal to entry deletes
\* the matching slot of highest index and no other, decrements size by 1,
\* and keeps the other entries in their order.
C15_RemoveHighestMatch ==
  [][(vecOp'.op = "remove" /\ vecOp'.present) =>
       \E k \in 1..clientVec.size :
         /\ clientVec.array[k] = vecOp'.entry
         /\ \A j \in (k + 1)..clientVec.size : clientVec.array[j] # vecOp'.entry
         /\ vecOp'.res = "ok"
         /\ clientVec'.size = clientVec.size - 1
         /\ clientVec'.capacity = clientVec.capacity
         /\ Entries(clientVec') =
              [j \in 1..(clientVec.size - 1) |->
                 IF j < k THEN clientVec.array[j] ELSE clientVec.array[j + 1]]]_vars

\* NetP(1), NetP(2), NetP(1) were pushed and remove(NetP(1)) took the last
\* slot: the first two entries stay, the freed slot still holds its old value
C15_Witness ==
  /\ vecOp.op = "remove"
  /\ vecOp.present
  /\ vecOp.entry = NetP(1)
  /\ clientVec.size = 2
  /\ Entries(clientVec) = <<NetP(1), NetP(2)>>
  /\ SlotContent(clientVec, 2) = NetP(1)

\* C16: remove(entry) on a Vec with no slot equal to entry fails: with
\* assertions compiled in the call is aborted by the assertion, and in every
\* build the size and the entries are what they were.
C16_RemoveAbsentFails ==
  (vecOp.op = "remove" /\ ~vecOp.present) =>
    /\ assertions => vecOp.res = "aborted"
    /\ vecOp.res # "crashed"
    /\ clientVec.size = Len(pushed)
    /\ Entries(clientVec) = pushed

\* C17: with assertions compiled in, entry_at(index) is aborted by its
\* assertion exactly when index >= size, in every state allocate, push, grow
\* and remove lead to (index -1 is the largest unsigned index).
C17_EntryAtOutOfRange ==
  (assertions /\ vecOp.op = "entry_at") =>
    (vecOp.res = "aborted" <=> ~(vecOp.idx >= 0 /\ vecOp.idx < clientVec.size))

----------------------------------------------------------------------------
\* C18: the manager allocated at the start of the import is live and not yet
\* released at every position of the pipeline, and released exactly once when
\* the import has returned, whatever the result.
C18_ManagerReleasedOnce ==
  /\ pc \in {"interfaces", "report"} \cup LaterStages =>
       /\ manager.live
       /\ manager.freed = 0
  /\ Returned =>
       /\ ~manager.live
       /\ manager.freed = 1

\* the import has returned OK after the whole pipeline ran
C18_Witness ==
  /\ Returned
  /\ result = "OK"
  /\ "acyclic" \in ran
  /\ manager.freed = 1

----------------------------------------------------------------------------
\* C19: when the import returns OK, the property list of the root network
\* holds, in order, every entry that was pending in vGlobalLtlArray when the
\* final step began.
C19_PendingLtlDrained ==
  (Returned /\ result = "OK" /\ Parsed /\ Candidates # <<>>) =>
    net[Candidates[1].i].ltl = pendingLtl

----------------------------------------------------------------------------
\* the modules of the parsed design that are not named "EXDC"
NonExdc == {n \in 1..Len(net) : net[n].name # "EXDC"}

\* C20: for a parsed, validated design with two or more modules (not counting
\* EXDC companions) and no cycle of subcircuit instances, the import returns
\* OK with the first top-level candidate as handle, the Design is not freed,
\* the root's owning_design is the Design, and every non-EXDC module is still
\* alive and in design.modules.
C20_MultiModuleKeepsDesign ==
  (Returned /\ Parsed /\ ~des.checkFailed /\ Cardinality(NonExdc) >= 2
     /\ \A n \in 1..Len(net) : AcyclicFrom(n)) =>
    /\ result = "OK"
    /\ Candidates # <<>>
    /\ handle = Candidates[1]
    /\ des.freed = 0
    /\ handle.t = "net" => net[handle.i].design = "D"
    /\ \A n \in NonExdc :
         /\ net[n].alive
         /\ \E k \in 1..Len(Entries(des.modules)) : Entries(des.modules)[k] = NetP(n)

----------------------------------------------------------------------------
\* C21: 0 <= size <= capacity holds in every state that allocate, push, grow
\* and remove lead to, remove on an empty Vec or with an absent entry
\* included, and no operation on a Vec makes its capacity smaller.
C21_SizeWithinCapacity ==
  /\ [](0 <= clientVec.size /\ clientVec.size <= clientVec.capacity)
  /\ [][vecOp'.op # "alloc" => clientVec'.capacity >= clientVec.capacity]_vars

----------------------------------------------------------------------------
\* C22: vec_alloc(c) gives capacity 8 for 1 <= c <= 7 and c otherwise; a push
\* onto a full Vec gives capacity 16 when the capacity was below 16 and twice
\* the capacity otherwise; a push onto a Vec that is not full and a grow(m)
\* with m <= capacity leave the capacity as it is; grow(m) with m > capacity
\* gives capacity m.
C22_GrowthPolicy ==
  [][/\ vecOp'.op = "alloc" =>
          clientVec'.capacity =
            IF 1 <= vecOp'.idx /\ vecOp'.idx <= 7 THEN 8 ELSE vecOp'.idx
     /\ vecOp'.op = "push" =>
          clientVec'.capacity =
            IF clientVec.size # clientVec.capacity THEN clientVec.capacity
            ELSE IF clientVec.capacity < 16 THEN 16
            ELSE 2 * clientVec.capacity
     /\ vecOp'.op = "fill" => clientVec'.capacity = clientVec.capacity
     /\ vecOp'.op = "grow" =>
          clientVec'.capacity =
            IF vecOp'.idx <= clientVec.capacity THEN clientVec.capacity
            ELSE vecOp'.idx]_vars

\* a Vec of capacity 16 was filled and the 17th push doubled its capacity
C22_Witness ==
  /\ vecOp.op = "push"
  /\ clientVec.size = 17
  /\ clientVec.capacity = 32

----------------------------------------------------------------------------
\* C23: after any sequence of install, reset and emit calls the handler list
\* is not empty and is, in order and with duplicates, the list of the handlers
\* installed since the last reset, or [default] when there is none; the
\* default handler is never in a list with a custom handler; an emit leaves
\* the list as it is.
C23_HandlerList ==
  /\ [](/\ handlers # <<>>
        /\ handlers = IF installed = <<>> THEN <<default_fault_handler>>
                      ELSE installed
        /\ (\E k \in 1..Len(handlers) : handlers[k] = default_fault_handler) =>
             handlers = <<default_fault_handler>>)
  /\ [][lastOp'.op \in {"emit", "throw"} => handlers' = handlers]_vars

\* the same handler was installed twice and both entries are kept, and an
\* emit has run on that list
C23_Witness ==
  /\ lastOp.op = "emit"
  /\ installed = <<fault_log, "handler2", fault_log>>
  /\ handlers = installed

====
